---- MODULE Spec2Model ----
(***************************************************************************)
(* Model of magnet_rs: the analytical field of a uniformly magnetised 2D  *)
(* rectangle (src/magnets/magnet2d/rectangle_field.rs) and the numeric     *)
(* constants it uses (src/lib.rs).                                         *)
(*                                                                         *)
(* Numbers.  An f64 is modelled as an extended rational: a finite value    *)
(* n/d in lowest terms, +Inf, -Inf or NaN.  Arithmetic on finite values is *)
(* exact (rounding is not modelled); the IEEE-754 rules for the special    *)
(* values (x/0, 0/0, ln 0, Inf - Inf, comparisons with NaN) are kept.      *)
(* The sign of a zero is not modelled: with a > 0 and b > 0 every zero the *)
(* kernels hand to atan2 is a +0.                                          *)
(*                                                                         *)
(* Transcendental results (atan2, ln) are carried in units of pi/PI        *)
(* radians, rounded to the nearest unit, so that PI, PI/2 and PI/4 are     *)
(* exact and I_2PI * PI = 1/2 exactly.  The program only ever multiplies   *)
(* such results by 1/(2 pi) or 1/(4 pi), so the change of unit cancels.    *)
(***************************************************************************)
EXTENDS Integers, Sequences, FiniteSets, TLC

----------------------------------------------------------------------------
(* f64 values *)

RECURSIVE GCD(_, _)
GCD(m, n) == IF n = 0 THEN m ELSE GCD(n, m % n)

Abs(n) == IF n < 0 THEN -n ELSE n

\* the finite value n/d (d > 0), in lowest terms
Fin(n, d) ==
  LET g == GCD(Abs(n), d)
  IN  [k |-> "fin", n |-> n \div g, d |-> d \div g]

Num(n) == [k |-> "fin", n |-> n, d |-> 1]

PosInf == [k |-> "inf", n |-> 1, d |-> 0]

NegInf == [k |-> "inf", n |-> -1, d |-> 0]

NaN == [k |-> "nan", n |-> 0, d |-> 0]

IsNaN(p) == p.k = "nan"

IsFinite(p) == p.k = "fin"

\* sign of a value that is not NaN: -1, 0 or 1
Sgn(p) == IF p.n > 0 THEN 1 ELSE IF p.n < 0 THEN -1 ELSE 0

Inf(s) == IF s > 0 THEN PosInf ELSE NegInf

FNeg(p) == [p EXCEPT !.n = -p.n]

FAbs(p) == [p EXCEPT !.n = Abs(p.n)]

FAdd(p, q) ==
  IF IsNaN(p) \/ IsNaN(q) THEN NaN
  ELSE IF p.k = "inf" /\ q.k = "inf" THEN (IF p.n = q.n THEN p ELSE NaN)
  ELSE IF p.k = "inf" THEN p
  ELSE IF q.k = "inf" THEN q
  ELSE LET g  == GCD(p.d, q.d)
           m1 == q.d \div g
           m2 == p.d \div g
       IN  Fin(p.n * m1 + q.n * m2, p.d * m1)

FSub(p, q) == FAdd(p, FNeg(q))

FMul(p, q) ==
  IF IsNaN(p) \/ IsNaN(q) THEN NaN
  ELSE IF p.k = "inf" \/ q.k = "inf"
       THEN (IF Sgn(p) * Sgn(q) = 0 THEN NaN ELSE Inf(Sgn(p) * Sgn(q)))
  ELSE LET g1 == GCD(Abs(p.n), q.d)
           g2 == GCD(Abs(q.n), p.d)
       IN  Fin((p.n \div g1) * (q.n \div g2), (p.d \div g2) * (q.d \div g1))

FDiv(p, q) ==
  IF IsNaN(p) \/ IsNaN(q) THEN NaN
  ELSE IF q.k = "inf" THEN (IF p.k = "inf" THEN NaN ELSE Num(0))
  ELSE IF q.n = 0 THEN (IF Sgn(p) = 0 THEN NaN ELSE Inf(Sgn(p)))
  ELSE IF p.k = "inf" THEN Inf(Sgn(p) * Sgn(q))
  ELSE FMul(p, [k |-> "fin", n |-> Sgn(q) * q.d, d |-> Abs(q.n)])

\* p > q; false when either side is NaN
FGt(p, q) ==
  /\ ~IsNaN(p)
  /\ ~IsNaN(q)
  /\ p # q
  /\ IF p.k = "inf" THEN p.n > 0
     ELSE IF q.k = "inf" THEN q.n < 0
     ELSE p.n * q.d > q.n * p.d

\* f64::powi(2)
Powi2(p) == FMul(p, p)

----------------------------------------------------------------------------
(* constants of lib.rs *)

PI == 36

M2_PI == FMul(Num(PI), Num(2))

M4_PI == FMul(Num(PI), Num(4))

I_2PI == FDiv(Num(1), M2_PI)

I_4PI == FDiv(Num(1), M4_PI)

FP_CUTOFF == Fin(1, 1000000)

----------------------------------------------------------------------------
(* f64::atan2 and f64::ln *)

\* TanTab[i] = 1000 * tan((i - 1/2) pi/PI)
TanTab ==
  << 44, 132, 222, 315, 414, 521, 637, 767, 916, 1091, 1303, 1570, 1921,
     2414, 3172, 4511, 7596, 22904 >>

\* atan(n/d) for n >= 0, d > 0, to the nearest unit: 0 .. PI/2
AtanUnits(n, d) ==
  Cardinality({i \in 1..Len(TanTab) : TanTab[i] * d <= n * 1000})

\* y.atan2(x)
Atan2(y, x) ==
  IF IsNaN(y) \/ IsNaN(x) THEN NaN
  ELSE IF y.k = "inf"
       THEN (IF x.k = "fin" THEN Num(Sgn(y) * (PI \div 2))
             ELSE IF x.n > 0 THEN Num(Sgn(y) * (PI \div 4))
             ELSE Num(Sgn(y) * 3 * (PI \div 4)))
  ELSE IF x.k = "inf"
       THEN (IF x.n > 0 THEN Num(0)
             ELSE IF y.n < 0 THEN Num(-PI) ELSE Num(PI))
  ELSE IF y.n = 0 THEN (IF x.n < 0 THEN Num(PI) ELSE Num(0))
  ELSE IF x.n = 0 THEN Num(Sgn(y) * (PI \div 2))
  ELSE LET r == FAbs(FDiv(y, x))
           t == AtanUnits(r.n, r.d)
       IN  IF x.n > 0 THEN Num(Sgn(y) * t) ELSE Num(Sgn(y) * (PI - t))

\* ExpTab[i] = 1000 * exp((i - 1/2) pi/PI)
ExpTab ==
  << 1045, 1140, 1244, 1357, 1481, 1616, 1763, 1924, 2100, 2291, 2500, 2728,
     2977, 3248, 3544, 3868, 4220, 4605, 5025, 5483, 5983, 6529, 7124, 7774,
     8483, 9256, 10100, 11021, 12026, 13123, 14320, 15625, 17050, 18605,
     20301, 22153, 24173, 26377, 28782, 31407, 34271, 37396, 40806, 44527,
     48587, 53018, 57852, 63128, 68884, 75165, 82019, 89499, 97660, 106565,
     116282, 126886, 138456, 151082, 164859, 179892 >>

\* ln(n/d) for n >= d > 0, to the nearest unit
LnUnits(n, d) ==
  Cardinality({i \in 1..Len(ExpTab) : ExpTab[i] * d <= n * 1000})

\* p.ln()
Ln(p) ==
  IF IsNaN(p) THEN NaN
  ELSE IF p.k = "inf" THEN (IF p.n > 0 THEN PosInf ELSE NaN)
  ELSE IF p.n < 0 THEN NaN
  ELSE IF p.n = 0 THEN NegInf
  ELSE IF p.n >= p.d THEN Num(LnUnits(p.n, p.d))
  ELSE Num(-LnUnits(p.d, p.n))

----------------------------------------------------------------------------
(* Point2 and Result *)

Point2(x, y) == [x |-> x, y |-> y]

Point2_zero == Point2(Num(0), Num(0))

\* Point2 += Point2
Point2_add(p, q) == Point2(FAdd(p.x, q.x), FAdd(p.y, q.y))

\* Point2 * f64
Point2_scale(p, k) == Point2(FMul(p.x, k), FMul(p.y, k))

Ok(v) == [ok |-> TRUE, val |-> v]

Err == [ok |-> FALSE, val |-> NaN]

----------------------------------------------------------------------------
(* Rectangle *)

\* The magnetisation angles of the model, theta = 1 .. Len(ThetaTab), with
\* the cosine and sine of each:
\*   1: 0 deg      2: 90 deg      3: 180 deg     4: atan(4/3) = 53.13 deg
\*   5: cos = 1e-6 (the ratio jx/jr is exactly the cutoff)
\*   6: cos = 2e-6 (just above the cutoff)
\*   7: sin = 1e-6 (the ratio jy/jr is exactly the cutoff)
\*   8: 180 deg + atan(3/4), both components negative
ThetaTab ==
  << [cos |-> Num(1),           sin |-> Num(0)],
     [cos |-> Num(0),           sin |-> Num(1)],
     [cos |-> Num(-1),          sin |-> Num(0)],
     [cos |-> Fin(3, 5),        sin |-> Fin(4, 5)],
     [cos |-> Fin(1, 1000000),  sin |-> Num(1)],
     [cos |-> Fin(2, 1000000),  sin |-> Num(1)],
     [cos |-> Num(1),           sin |-> Fin(1, 1000000)],
     [cos |-> Fin(-4, 5),       sin |-> Fin(-3, 5)] >>

\* Rectangle::new(width, height, center, alpha, jr, theta)
Rectangle_new(width, height, center, alpha, jr, theta) ==
  [a      |-> FDiv(width, Num(2)),
   b      |-> FDiv(height, Num(2)),
   center |-> center,
   alpha  |-> alpha,
   jr     |-> jr,
   theta  |-> theta,
   jx     |-> FMul(jr, ThetaTab[theta].cos),
   jy     |-> FMul(jr, ThetaTab[theta].sin)]

----------------------------------------------------------------------------------------------------------------------------------------
(* the four kernels *)

\* top_1.atan2(bottom_1) + top_2.atan2(bottom_2)
Atan2Sum(g) == FAdd(Atan2(g.top_1, g.bottom_1), Atan2(g.top_2, g.bottom_2))

\* top_1.atan2(bottom_1) - top_2.atan2(bottom_2)
Atan2Diff(g) == FSub(Atan2(g.top_1, g.bottom_1), Atan2(g.top_2, g.bottom_2))

\* (top_1 / bottom_1).ln() - (top_2 / bottom_2).ln()
LnDiff(g) ==
  FSub(Ln(FDiv(g.top_1, g.bottom_1)), Ln(FDiv(g.top_2, g.bottom_2)))

\* the arguments of the two atan2 calls of field_in_x_for_x_mag
bxx_args(x, y, a, b) ==
  LET b_plus_y       == FAdd(b, y)
      b_minus_y      == FSub(b, y)
      b_plus_y_sq    == Powi2(b_plus_y)
      b_minus_y_sq   == Powi2(b_minus_y)
      x_sq           == Powi2(x)
      a_sq           == Powi2(a)
      a2             == FMul(Num(2), a)
      xsq_minus_a_sq == FSub(x_sq, a_sq)
  IN  [top_1    |-> FMul(a2, b_plus_y),
       bottom_1 |-> FAdd(xsq_minus_a_sq, b_plus_y_sq),
       top_2    |-> FMul(a2, FSub(b, y)),
       bottom_2 |-> FAdd(xsq_minus_a_sq, b_minus_y_sq)]

\* field_in_x_for_x_mag with the factor of the logarithmic kernels, I_4PI,
\* in place of I_2PI
field_in_x_for_x_mag_i4pi(x, y, a, b, j) ==
  Ok(FMul(FMul(j, I_4PI), Atan2Sum(bxx_args(x, y, a, b))))

field_in_x_for_x_mag(x, y, a, b, j) ==
  Ok(FMul(FMul(j, I_2PI), Atan2Sum(bxx_args(x, y, a, b))))

\* the numerators and denominators of the two ln arguments of
\* field_in_y_for_x_mag
byx_args(x, y, a, b) ==
  LET x_plus_a_sq  == Powi2(FAdd(x, a))
      x_minus_a_sq == Powi2(FSub(x, a))
      y_plus_b_sq  == Powi2(FAdd(y, b))
      y_minus_b_sq == Powi2(FSub(y, b))
  IN  [top_1    |-> FAdd(x_minus_a_sq, y_minus_b_sq),
       bottom_1 |-> FAdd(x_plus_a_sq, y_minus_b_sq),
       top_2    |-> FAdd(x_minus_a_sq, y_plus_b_sq),
       bottom_2 |-> FAdd(x_plus_a_sq, y_plus_b_sq)]

\* Ok(v) for a finite v, Err otherwise
OkIfFinite(v) == IF IsFinite(v) THEN Ok(v) ELSE Err

\* field_in_y_for_x_mag reporting a value that is not finite as Err
field_in_y_for_x_mag_checked(x, y, a, b, j) ==
  OkIfFinite(FMul(FMul(FNeg(j), I_4PI), LnDiff(byx_args(x, y, a, b))))

field_in_y_for_x_mag(x, y, a, b, j) ==
  Ok(FMul(FMul(FNeg(j), I_4PI), LnDiff(byx_args(x, y, a, b))))

\* the numerators and denominators of the two ln arguments of
\* field_in_x_for_y_mag
bxy_args(x, y, a, b) ==
  LET x_plus_a_sq  == Powi2(FAdd(x, a))
      x_minus_a_sq == Powi2(FSub(x, a))
      y_plus_b_sq  == Powi2(FAdd(y, b))
      y_mins_b_sq  == Powi2(FSub(y, b))
  IN  [top_1    |-> FAdd(x_plus_a_sq, y_mins_b_sq),
       bottom_1 |-> FAdd(x_plus_a_sq, y_plus_b_sq),
       top_2    |-> FAdd(x_minus_a_sq, y_mins_b_sq),
       bottom_2 |-> FAdd(x_minus_a_sq, y_plus_b_sq)]

field_in_x_for_y_mag(x, y, a, b, j) ==
  Ok(FMul(FMul(j, I_4PI), LnDiff(bxy_args(x, y, a, b))))

\* the arguments of the two atan2 calls of field_in_y_for_y_mag
byy_args(x, y, a, b) ==
  LET x_plus_a     == FAdd(x, a)
      x_minus_a    == FSub(x, a)
      x_plus_a_sq  == Powi2(x_plus_a)
      x_minus_a_sq == Powi2(x_minus_a)
      y_sq         == Powi2(y)
      b_sq         == Powi2(b)
      b2           == FMul(Num(2), b)
  IN  [top_1    |-> FMul(b2, x_plus_a),
       bottom_1 |-> FSub(FAdd(x_plus_a_sq, y_sq), b_sq),
       top_2    |-> FMul(b2, x_minus_a),
       bottom_2 |-> FSub(FAdd(x_minus_a_sq, y_sq), b_sq)]

field_in_y_for_y_mag(x, y, a, b, j) ==
  Ok(FMul(FMul(j, I_2PI), Atan2Diff(byy_args(x, y, a, b))))

----------------------------------------------------------------------------
(* the evaluator *)

\* one kernel call: the function, its arguments and what it returned
Call(fn, x, y, a, b, j, ret) ==
  [fn |-> fn, x |-> x, y |-> y, a |-> a, b |-> b, j |-> j, ret |-> ret]

\* Point2 { x: c1?, y: c2? } wrapped in Ok: ret is the value returned,
\* calls the kernel calls made (the ? operator returns at the first Err,
\* before the second kernel is called)
TryPoint2(c1, c2) ==
  IF ~c1.ret.ok THEN [ret |-> Err, calls |-> <<c1>>]
  ELSE IF ~c2.ret.ok THEN [ret |-> Err, calls |-> <<c1, c2>>]
  ELSE [ret |-> Ok(Point2(c1.ret.val, c2.ret.val)), calls |-> <<c1, c2>>]

\* the kernel calls of magnetic_field_x at (x, y)
XCalls(x, y, a, b, jx) ==
  TryPoint2(Call("field_in_x_for_x_mag", x, y, a, b, jx,
                 field_in_x_for_x_mag(x, y, a, b, jx)),
            Call("field_in_y_for_x_mag", x, y, a, b, jx,
                 field_in_y_for_x_mag(x, y, a, b, jx)))

\* magnetic_field_x evaluating the kernels at point - magnet.center
magnetic_field_x_local(magnet, point) ==
  XCalls(FSub(point.x, magnet.center.x), FSub(point.y, magnet.center.y),
         magnet.a, magnet.b, magnet.jx)

magnetic_field_x(magnet, point) ==
  XCalls(point.x, point.y, magnet.a, magnet.b, magnet.jx)

\* the kernel calls of magnetic_field_y at (x, y): j1 is handed to
\* field_in_x_for_y_mag, j2 to field_in_y_for_y_mag
YCalls(x, y, a, b, j1, j2) ==
  TryPoint2(Call("field_in_x_for_y_mag", x, y, a, b, j1,
                 field_in_x_for_y_mag(x, y, a, b, j1)),
            Call("field_in_y_for_y_mag", x, y, a, b, j2,
                 field_in_y_for_y_mag(x, y, a, b, j2)))

\* magnetic_field_y handing magnet.jx to field_in_x_for_y_mag
magnetic_field_y_jx(magnet, point) ==
  YCalls(point.x, point.y, magnet.a, magnet.b, magnet.jx, magnet.jy)

magnetic_field_y(magnet, point) ==
  YCalls(point.x, point.y, magnet.a, magnet.b, magnet.jy, magnet.jy)

\* match local_field { Ok(value) => value, Err(_e) => Point2 { x: 0.0,
\* y: 0.0 } }: val is the value, err_arm whether the Err arm produced it
MatchLocalField(local_field) ==
  IF local_field.ret.ok
  THEN [val     |-> local_field.ret.val,
        err_arm |-> FALSE,
        calls   |-> local_field.calls]
  ELSE [val     |-> Point2(Num(0), Num(0)),
        err_arm |-> TRUE,
        calls   |-> local_field.calls]

\* the else branch of a cutoff test: Point2 { x: 0.0, y: 0.0 }
BelowCutoff ==
  [val |-> Point2(Num(0), Num(0)), err_arm |-> FALSE, calls |-> <<>>]

\* contribution_x with >= in place of > in the cutoff test
contribution_x_ge(magnet, point) ==
  IF \/ FGt(FAbs(FDiv(magnet.jx, magnet.jr)), FP_CUTOFF)
     \/ FAbs(FDiv(magnet.jx, magnet.jr)) = FP_CUTOFF
  THEN MatchLocalField(magnetic_field_x(magnet, point))
  ELSE BelowCutoff

\* contribution_x testing |jx| against the cutoff, not |jx/jr|
contribution_x_abs(magnet, point) ==
  IF FGt(FAbs(magnet.jx), FP_CUTOFF)
  THEN MatchLocalField(magnetic_field_x(magnet, point))
  ELSE BelowCutoff

\* the value of the first "field += if ... else ..." of get_field_rectangle
contribution_x(magnet, point) ==
  IF FGt(FAbs(FDiv(magnet.jx, magnet.jr)), FP_CUTOFF)
  THEN MatchLocalField(magnetic_field_x(magnet, point))
  ELSE BelowCutoff

\* the value of the second "field += if ... else ..."
contribution_y(magnet, point) ==
  IF FGt(FAbs(FDiv(magnet.jy, magnet.jr)), FP_CUTOFF)
  THEN MatchLocalField(magnetic_field_y(magnet, point))
  ELSE BelowCutoff

\* field = Point2::zero(); field += cx; field += cy; Ok(field).
\* ret is the value returned; contrib_x and contrib_y are the two values
\* added to field, calls the kernel calls made in order, err_arms the number
\* of Err arms taken
SumField(cx, cy) ==
  [ret       |-> Ok(Point2_add(Point2_add(Point2_zero, cx.val), cy.val)),
   contrib_x |-> cx.val,
   contrib_y |-> cy.val,
   calls     |-> cx.calls \o cy.calls,
   err_arms  |-> (IF cx.err_arm THEN 1 ELSE 0)
                 + (IF cy.err_arm THEN 1 ELSE 0)]

\* r with ret turned into an Err when a component of the field is not
\* finite
ErrIfNotFinite(r) ==
  IF IsFinite(r.ret.val.x) /\ IsFinite(r.ret.val.y)
  THEN r
  ELSE [r EXCEPT !.ret.ok = FALSE]

\* get_field_rectangle returning Err for a field that is not finite
get_field_rectangle_fallible(magnet, point) ==
  ErrIfNotFinite(SumField(contribution_x(magnet, point),
                          contribution_y(magnet, point)))

get_field_rectangle(magnet, point) ==
  SumField(contribution_x(magnet, point), contribution_y(magnet, point))

----------------
(* bounds and inputs *)

\* widths and heights are 1 .. MaxWidth, so a and b are 1/2 .. MaxWidth/2
MaxWidth == 2

\* coordinates of the observation point are i/2 for i in -MaxCoord .. MaxCoord
MaxCoord == 2

\* remanences are 1 .. MaxJr
MaxJr == 2

Widths == {Num(w) : w \in 1..MaxWidth}

Coords == {Fin(i, 2) : i \in -MaxCoord..MaxCoord}

Points == {Point2(x, y) : x \in Coords, y \in Coords}

Centers == {Point2(Num(0), Num(0)), Point2(Num(0), Fin(-1, 2))}

Remanences == {Num(j) : j \in 1..MaxJr}

Thetas == 1..Len(ThetaTab)

----------------------------------------------------------------------------
(* the state machine: a magnet is built, then one field query is answered *)

VARIABLES magnet, point, pc, result, contrib_x, contrib_y, calls, err_arms

vars == <<magnet, point, pc, result, contrib_x, contrib_y, calls, err_arms>>

Init ==
  /\ \E width \in Widths, height \in Widths, center \in Centers,
        jr \in Remanences, theta \in Thetas :
       magnet = Rectangle_new(width, height, center, 0, jr, theta)
  /\ point \in Points
  /\ pc = "ready"
  /\ result = Ok(Point2_zero)
  /\ contrib_x = Point2_zero
  /\ contrib_y = Point2_zero
  /\ calls = <<>>
  /\ err_arms = 0

\* the caller takes what get_field_rectangle returned
Returned(r) ==
  /\ result' = r.ret
  /\ contrib_x' = r.contrib_x
  /\ contrib_y' = r.contrib_y
  /\ calls' = r.calls
  /\ err_arms' = r.err_arms

GetFieldRectangle ==
  /\ pc = "ready"
  /\ Returned(get_field_rectangle(magnet, point))
  /\ pc' = "done"
  /\ UNCHANGED <<magnet, point>>

Next == GetFieldRectangle

Spec == Init /\ [][Next]_vars

----------------------------------------------------------------------------
(* vocabulary of the properties *)

Origin == Point2(Num(0), Num(0))

\* the ratio tests of get_field_rectangle, restated on the magnet in hand
XAboveCutoff == FGt(FAbs(FDiv(magnet.jx, magnet.jr)), FP_CUTOFF)

YAboveCutoff == FGt(FAbs(FDiv(magnet.jy, magnet.jr)), FP_CUTOFF)

Called(fn) == \E i \in 1..Len(calls) : calls[i].fn = fn

\* the observation point is a corner of the rectangle taken as centred at
\* the origin
AtCorner == FAbs(point.x) = magnet.a /\ FAbs(point.y) = magnet.b

\* an atan2 of the kernel has both arguments zero
AtanIndeterminate(g) ==
  \/ g.top_1 = Num(0) /\ g.bottom_1 = Num(0)
  \/ g.top_2 = Num(0) /\ g.bottom_2 = Num(0)

\* a logarithm of the kernel has an argument that is not positive
LnIndeterminate(g) ==
  \/ ~FGt(FDiv(g.top_1, g.bottom_1), Num(0))
  \/ ~FGt(FDiv(g.top_2, g.bottom_2), Num(0))

IndeterminateX ==
  /\ XAboveCutoff
  /\ \/ AtanIndeterminate(bxx_args(point.x, point.y, magnet.a, magnet.b))
     \/ LnIndeterminate(byx_args(point.x, point.y, magnet.a, magnet.b))

IndeterminateY ==
  /\ YAboveCutoff
  /\ \/ AtanIndeterminate(byy_args(point.x, point.y, magnet.a, magnet.b))
     \/ LnIndeterminate(bxy_args(point.x, point.y, magnet.a, magnet.b))

\* the magnet of the same geometry magnetised by jx alone, and by jy alone
XAlone(m) == [m EXCEPT !.jy = Num(0), !.jr = FAbs(m.jx)]

YAlone(m) == [m EXCEPT !.jx = Num(0), !.jr = FAbs(m.jy)]

\* the magnet rebuilt with its remanence multiplied by k
Scaled(m, k) ==
  Rectangle_new(FMul(Num(2), m.a), FMul(Num(2), m.b), m.center, m.alpha,
                FMul(k, m.jr), m.theta)

\* the scale factors tried: 1/2 and 2 .. MaxK
MaxK == 3

Scales == {Fin(1, 2)} \cup {Num(k) : k \in 2..MaxK}

CallNames(cs) == [i \in 1..Len(cs) |-> cs[i].fn]

----------------------------------------------------------------------------
(* properties *)

\* C1: both components of the returned field are finite, at every point,
\* the corners and edge midpoints of the rectangle included.
C1_NoNonFiniteLeak ==
  pc = "done" => IsFinite(result.val.x) /\ IsFinite(result.val.y)

\* C2: when the evaluation for one axis is indeterminate (ln of a
\* non-positive argument, atan2 of two zeros) the zero vector is
\* substituted for that axis and the field is the other axis's contribution.
C2_ZeroSubstituted ==
  pc = "done" =>
    /\ IndeterminateX => contrib_x = Point2_zero /\ result.val = contrib_y
    /\ IndeterminateY => contrib_y = Point2_zero /\ result.val = contrib_x

\* C3: get_field_rectangle returns Ok for every magnet and point.
C3_AlwaysOk == pc = "done" => result.ok

\* C3 witness: the call has returned Ok at a corner, where a kernel is
\* singular.
C3_Witness ==
  pc = "done" /\ result.ok /\ AtCorner /\ XAboveCutoff /\ Len(calls) > 0

\* C4: the x kernels are called iff |jx/jr| > FP_CUTOFF and the y kernels
\* iff |jy/jr| > FP_CUTOFF; an axis at or below the cutoff adds exactly
\* (0, 0).
C4_CutoffDecides ==
  pc = "done" =>
    /\ Called("field_in_x_for_x_mag") <=> XAboveCutoff
    /\ Called("field_in_y_for_x_mag") <=> XAboveCutoff
    /\ Called("field_in_x_for_y_mag") <=> YAboveCutoff
    /\ Called("field_in_y_for_y_mag") <=> YAboveCutoff
    /\ ~XAboveCutoff => contrib_x = Point2_zero
    /\ ~YAboveCutoff => contrib_y = Point2_zero

\* C4 witness: a magnet whose ratio |jx/jr| is exactly the cutoff, with jx
\* not zero, has been evaluated: the x kernels were skipped, the y kernels
\* called.
C4_Witness ==
  /\ pc = "done"
  /\ FAbs(FDiv(magnet.jx, magnet.jr)) = FP_CUTOFF
  /\ contrib_x = Point2_zero
  /\ CallNames(calls) = <<"field_in_x_for_y_mag", "field_in_y_for_y_mag">>

\* C5 as claimed: the kernels are evaluated at point - magnet.center, so
\* magnet/point pairs that agree on a, b, jr, theta and on point - center
\* get equal fields.
C5_LocalFrame ==
  pc = "done" =>
    /\ \A i \in 1..Len(calls) :
         /\ calls[i].x = FSub(point.x, magnet.center.x)
         /\ calls[i].y = FSub(point.y, magnet.center.y)
    /\ \A c2 \in Centers, p2 \in Points :
         (/\ FSub(p2.x, c2.x) = FSub(point.x, magnet.center.x)
          /\ FSub(p2.y, c2.y) = FSub(point.y, magnet.center.y))
         => get_field_rectangle([magnet EXCEPT !.center = c2], p2).ret = result

\* C5 amended: the kernels are evaluated at the observation point as given,
\* magnet.center is not read: magnets that agree on a, b, jr, theta get
\* equal fields and equal kernel calls at the same point, whatever their
\* centers.
C5_CenterIgnored ==
  pc = "done" =>
    /\ \A i \in 1..Len(calls) :
         calls[i].x = point.x /\ calls[i].y = point.y
    /\ \A c2 \in Centers :
         LET r2 == get_field_rectangle([magnet EXCEPT !.center = c2], point)
         IN  r2.ret = result /\ r2.calls = calls

\* C5 witness: a magnet whose center is not the origin has been evaluated
\* and its kernels were called.
C5_Witness ==
  /\ pc = "done"
  /\ magnet.center # Origin
  /\ Len(calls) = 4
  /\ IsFinite(result.val.x)
  /\ result.val # Point2_zero

\* C6 as claimed: the field of a magnet is the sum of the fields of the
\* same geometry magnetised by jx alone and by jy alone.
C6_Superposition ==
  pc = "done" =>
    result.val =
      Point2_add(get_field_rectangle(XAlone(magnet), point).ret.val,
                 get_field_rectangle(YAlone(magnet), point).ret.val)

\* C6 amended: the same, for magnets each of whose components jx, jy is
\* zero or passes the cutoff test (|j/jr| > FP_CUTOFF).
C6_SuperpositionAboveCutoff ==
  (/\ pc = "done"
   /\ magnet.jx = Num(0) \/ XAboveCutoff
   /\ magnet.jy = Num(0) \/ YAboveCutoff)
  => result.val =
       Point2_add(get_field_rectangle(XAlone(magnet), point).ret.val,
                  get_field_rectangle(YAlone(magnet), point).ret.val)

\* C6 witness: a magnet with both components above the cutoff has been
\* evaluated and both axes added something.
C6_Witness ==
  /\ pc = "done"
  /\ XAboveCutoff
  /\ YAboveCutoff
  /\ contrib_x.y # Num(0)
  /\ contrib_y.x # Num(0)
  /\ IsFinite(result.val.x)
  /\ IsFinite(result.val.y)

C8_SquareAtOrigin ==
  (/\ pc = "done"
   /\ magnet.a = magnet.b
   /\ magnet.center = Point2(Num(0), Fin(-1, 2))
   /\ point = Origin)
  => /\ magnet.theta = 1 =>
          result.val = Point2(FDiv(magnet.jr, Num(2)), Num(0))
     /\ magnet.theta = 2 =>
          result.val = Point2(Num(0), FDiv(magnet.jr, Num(2)))

\* C8 witness: the magnet of the test symmetry_field_in_x,
\* Rectangle::new(1.0, 1.0, (0, -0.5), 0, 1.0, 0.0), has been evaluated at
\* the origin.
C8_Witness ==
  /\ pc = "done"
  /\ magnet = Rectangle_new(Num(1), Num(1), Point2(Num(0), Fin(-1, 2)), 0,
                            Num(1), 1)
  /\ point = Origin
  /\ result.val.x = Fin(1, 2)

\* C9: field_in_y_for_y_mag(x, y, a, b, j) equals
\* field_in_x_for_x_mag(y, x, b, a, j), on the edges x = +/-a included.
C9_ByyMirrorsBxx ==
  \A i \in 1..Len(calls) :
    calls[i].fn = "field_in_y_for_y_mag" =>
      calls[i].ret = field_in_x_for_x_mag(calls[i].y, calls[i].x, calls[i].b,
                                          calls[i].a, calls[i].j)

====
